---------------------------- MODULE Spec2Model ----------------------------
(***************************************************************************)
(* A model of the FACEIT stats proxy (src/src/server.ts and the variant    *)
(* in src/unnamed/part_000): the in-memory response cache, the             *)
(* GET /faceit/:nick handler with its await points, the normalisation of   *)
(* the upstream player payload and the aggregation of today's matches.     *)
(*                                                                         *)
(* The source holds three variants of the handler:                         *)
(*   "extended"  src/src/server.ts 1-283   (match history, 60 s cache)     *)
(*   "basic"     src/src/server.ts 285-421 (JSON errors only, 8 s timeout) *)
(*   "botrix"    src/unnamed/part_000      (text errors, 30 s cache)       *)
(*                                                                         *)
(* Strings of the source that hold non-ASCII characters are written here   *)
(* in ASCII: the em dash as "-", "nao" for the a-tilde, "invalida" for the *)
(* a-acute.                                                                *)
(***************************************************************************)
EXTENDS Integers, Sequences, FiniteSets, TLC

VARIABLES
    variant,   \* which of the three handler variants the process runs
    keyOK,     \* FACEIT_KEY is a non-empty string
    now,       \* Date.now(), in milliseconds
    cache,     \* the Map `cache`: key -> CacheEntry, or NoEntry
    stored,    \* history: per key, what the last setCache put there
    op,        \* the last step taken: what it was and what it returned or sent
    reqs,      \* the handler invocations in flight, each at one of its awaits
    pin,       \* input of the pure function being applied
    pout       \* its output

vars == <<variant, keyOK, now, cache, stored, op, reqs, pin, pout>>

-----------------------------------------------------------------------------
(* JavaScript values.                                                      *)

Undef == [t |-> "undefined"]
Null == [t |-> "null"]
Num(n) == [t |-> "number", v |-> n]
Str(s) == [t |-> "string", v |-> s]

\* x ?? y
Nullish(x) == x.t \in {"undefined", "null"}
Coalesce(x, y) == IF Nullish(x) THEN y ELSE x

\* the truthiness test of `x ? .. : ..`, `x || y` and `x && y`
Truthy(x) ==
    CASE x.t = "number" -> x.v # 0
      [] x.t = "string" -> x.v # ""
      [] x.t = "chars" -> Len(x.v) > 0
      [] x.t \in {"undefined", "null"} -> FALSE
      [] OTHER -> TRUE
OrElse(x, y) == IF Truthy(x) THEN x ELSE y

\* String(x) for the values a level can take
JsString(x) ==
    CASE x.t = "number" -> ToString(x.v)
      [] x.t = "string" -> x.v
      [] OTHER -> x.t

-----------------------------------------------------------------------------
(* The clock.  Time is in milliseconds, as Date.now() gives it, and starts *)
(* at a midnight.  It advances by the timeout of an upstream request or by *)
(* the TTL of the variant's entries, within MaxPeriods TTLs, of each of    *)
(* which it shows the first MaxTimeouts timeouts.                          *)

TTL_DEFAULT == 30000
TTL_EXTENDED == 60000
TIMEOUT_SHORT == 1500
TIMEOUT_BASIC == 8000

\* the length of a calendar day of the server, and the midnight time starts at
DAY_MS == 86400000
ClockStart == DAY_MS

MaxPeriods == 1
MaxTimeouts == 1

\* the `timeout` of axios.get
timeoutOf(v) == IF v = "basic" THEN TIMEOUT_BASIC ELSE TIMEOUT_SHORT

\* the ttl the variant passes to setCache (the basic variant passes none)
ttlOf(v) == IF v = "extended" THEN TTL_EXTENDED ELSE TTL_DEFAULT

TickSizes(v) == {timeoutOf(v), ttlOf(v)}
ClockOK(t, v) ==
    LET e == t - ClockStart
        r == e % ttlOf(v)
    IN  /\ e \div ttlOf(v) <= MaxPeriods
        /\ r % timeoutOf(v) = 0
        /\ r \div timeoutOf(v) <= MaxTimeouts

-----------------------------------------------------------------------------
(* The cache: setCache and getCache.                                       *)

NoEntry == [t |-> "none"]
Entry(value, expire) == [t |-> "entry", value |-> value, expire |-> expire]

\* cache.set(key, { value, expire: Date.now() + ttl })
setCache(c, key, value, ttl, t) ==
    [c EXCEPT ![key] = Entry(value, t + ttl)]

\* Date.now() > item.expire
ExpiredAtOrAfter(t, expire) == t >= expire
Expired(t, expire) == t > expire

\* what getCache returns: null for no item or an expired one, else item.value
getCacheValue(c, key, t) ==
    IF c[key] = NoEntry THEN Null
    ELSE IF Expired(t, c[key].expire) THEN Null
    ELSE c[key].value

\* the map getCache leaves behind: an expired item is deleted
getCacheKeepsExpired(c, key, t) == c
getCacheMap(c, key, t) ==
    IF c[key] # NoEntry /\ Expired(t, c[key].expire)
    THEN [c EXCEPT ![key] = NoEntry]
    ELSE c

-----------------------------------------------------------------------------
(* Requests.                                                               *)

Nicks == {"ana", "bia"}
GameQueries == {"", "CS2"}
FormatQueries == {"", "text", "TEXT"}

\* s.toLowerCase(), over the letters the model's strings use
LowerChar(c) ==
    CASE c = "C" -> "c"
      [] c = "S" -> "s"
      [] c = "D" -> "d"
      [] c = "T" -> "t"
      [] c = "E" -> "e"
      [] c = "X" -> "x"
      [] OTHER -> c
RECURSIVE toLowerCase(_)
toLowerCase(s) ==
    IF s = "" THEN ""
    ELSE LowerChar(SubSeq(s, 1, 1)) \o toLowerCase(SubSeq(s, 2, Len(s)))

\* s.includes(sub)
includes(s, sub) ==
    \E i \in 0..(Len(s) - Len(sub)) : SubSeq(s, i + 1, i + Len(sub)) = sub

\* (req.query.game as string)?.toLowerCase() || "cs2"
GameOf(q) == IF toLowerCase(q) = "" THEN "cs2" ELSE toLowerCase(q)
\* (req.query.format as string)?.toLowerCase() || "json"
FormatOf(q) == IF toLowerCase(q) = "" THEN "json" ELSE toLowerCase(q)

\* `faceit:${nick}:${game}`
CacheKey(nick, game) == "faceit:" \o nick \o ":" \o game
Keys == {CacheKey(n, GameOf(g)) : n \in Nicks, g \in GameQueries}
NoKey == ""

-----------------------------------------------------------------------------
(* The values every specification starts from.                             *)

NoOp == [kind |-> "none", key |-> NoKey, ret |-> Undef, had |-> FALSE]
NoPure == [t |-> "none"]
EmptyCache == [k \in Keys |-> NoEntry]

-----------------------------------------------------------------------------
(* CacheSpec: the cache on its own, driven through setCache and getCache   *)
(* with any key, value and ttl >= 0, and the clock.                        *)

CacheValues == {Num(0), Str("a"), Str("b")}
CacheTTLs == {0, TIMEOUT_SHORT, TTL_DEFAULT, TTL_EXTENDED}

CacheInit ==
    /\ variant \in {"extended", "basic", "botrix"}
    /\ keyOK = TRUE
    /\ now = ClockStart
    /\ cache = EmptyCache
    /\ stored = EmptyCache
    /\ op = NoOp
    /\ reqs = <<>>
    /\ pin = NoPure
    /\ pout = NoPure

CacheSet ==
    \E k \in Keys, v \in CacheValues, ttl \in CacheTTLs :
        /\ cache' = setCache(cache, k, v, ttl, now)
        /\ stored' = [stored EXCEPT ![k] = Entry(v, now + ttl)]
        /\ op' = [kind |-> "set", key |-> k, ret |-> Undef, had |-> cache[k] # NoEntry]
        /\ UNCHANGED <<variant, keyOK, now, reqs, pin, pout>>

CacheGet ==
    \E k \in Keys :
        /\ cache' = getCacheMap(cache, k, now)
        /\ op' = [kind |-> "get", key |-> k, ret |-> getCacheValue(cache, k, now),
                  had |-> cache[k] # NoEntry]
        /\ UNCHANGED <<variant, keyOK, now, stored, reqs, pin, pout>>

CacheTick ==
    \E d \in TickSizes(variant) :
        /\ ClockOK(now + d, variant)
        /\ now' = now + d
        /\ op' = [kind |-> "tick", key |-> NoKey, ret |-> Undef, had |-> FALSE]
        /\ UNCHANGED <<variant, keyOK, cache, stored, reqs, pin, pout>>

CacheNext == CacheSet \/ CacheGet \/ CacheTick
CacheSpec == CacheInit /\ [][CacheNext]_vars

\* C1: a getCache(key) issued at a time now <= expiresAt of the last
\* setCache(key, value, ttl), now = expiresAt included, returns that value
\* unchanged and leaves the entry in the cache.
C1_FreshReadReturnsStored ==
    (op.kind = "get" /\ stored[op.key] # NoEntry /\ now <= stored[op.key].expire)
        => (op.ret = stored[op.key].value /\ cache[op.key] = stored[op.key])

\* a read exactly at expiresAt, a whole TTL after the write, that got the value
C1_Witness ==
    /\ op.kind = "get"
    /\ stored[op.key] # NoEntry
    /\ now = stored[op.key].expire
    /\ now >= ClockStart + TTL_DEFAULT
    /\ op.ret = stored[op.key].value
    /\ cache[op.key] # NoEntry

\* C2: a getCache(key) issued after expiresAt returns absent and removes the
\* entry, every later getCache(key) returns absent until the next
\* setCache(key, ..), and an entry disappears only in such an expired read.
C2_ExpiredReadEvicts ==
    /\ [](  (op.kind = "get" /\ stored[op.key] # NoEntry /\ now > stored[op.key].expire)
               => (op.ret = Null /\ cache[op.key] = NoEntry))
    /\ [][\A k \in Keys :
            (cache[k] # NoEntry /\ cache'[k] = NoEntry)
                => (op'.kind = "get" /\ op'.key = k /\ now > cache[k].expire)]_vars

\* a second read of an entry that an earlier expired read had already removed
C2_Witness ==
    /\ op.kind = "get"
    /\ stored[op.key] # NoEntry
    /\ now > stored[op.key].expire
    /\ ~op.had
    /\ op.ret = Null
    /\ cache[op.key] = NoEntry

-----------------------------------------------------------------------------
(* The profile resolver: normalising the upstream player payload.          *)

Variants == {"extended", "basic", "botrix"}

\* an element of data.games, or data.game
GameObject(name, slug, game_id, level, elo) ==
    [t |-> "object", name |-> name, slug |-> slug, game_id |-> game_id,
     skill_level |-> level, faceit_elo |-> elo]
\* data.games as an array, and as an object keyed by game
GamesArray(items) == [t |-> "array", items |-> items]
GamesObject(keys, items) == [t |-> "object", keys |-> keys, items |-> items]
\* the body of the players response
PlayerData(nickname, player_id, level, elo, games, game) ==
    [t |-> "object", nickname |-> nickname, player_id |-> player_id,
     playerId |-> Undef, skill_level |-> level, faceit_elo |-> elo,
     games |-> games, game |-> game]

\* o?.f
Get(o, f) ==
    IF Nullish(o) THEN Undef
    ELSE IF f \in DOMAIN o THEN o[f]
    ELSE Undef

\* let gamesArray = [] ... : data.games as it is when an array, its values
\* when an object, else [data.game] when that is an object
gamesArrayOfArraysOnly(data) ==
    IF data.games.t = "array" THEN data.games.items ELSE <<>>
gamesArray(data) ==
    IF data.games.t = "array" THEN data.games.items
    ELSE IF Truthy(data.games) /\ data.games.t = "object" THEN data.games.items
    ELSE IF Truthy(data.game) /\ data.game.t = "object" THEN <<data.game>>
    ELSE <<>>

\* the predicate of gamesArray.find
matchesGame(g, gameLower) ==
    /\ Truthy(g)
    /\ \/ includes(toLowerCase(JsString(OrElse(OrElse(g.name, g.slug), Str("")))),
                   gameLower)
       \/ /\ Truthy(g.game_id)
          /\ includes(toLowerCase(JsString(g.game_id)), gameLower)

\* gamesArray.find(..): the first element that matches, else undefined
findGame(arr, gameLower) ==
    LET hits == {i \in 1..Len(arr) : matchesGame(arr[i], gameLower)}
    IN  IF hits = {} THEN Undef
        ELSE arr[CHOOSE i \in hits : \A j \in hits : i <= j]

\* data.games[gameLower]: the value under that key of an object; an array has
\* no such property
keyedGame(data, gameLower) ==
    IF data.games.t = "object"
    THEN LET at == {i \in 1..Len(data.games.keys) : data.games.keys[i] = gameLower}
         IN  IF at = {} THEN Undef ELSE data.games.items[CHOOSE i \in at : TRUE]
    ELSE Undef

\* gameObj?.f ?? data.f ?? (data.games && data.games[gameLower]?.f) ?? null
extractExtended(data, gameLower, f) ==
    Coalesce(
        Coalesce(
            Coalesce(Get(findGame(gamesArray(data), gameLower), f), data[f]),
            IF Truthy(data.games) THEN Get(keyedGame(data, gameLower), f)
            ELSE data.games),
        Null)

\* (gameObj?.f ?? data.f ?? data.games?.[gameLower]?.f) || null
extractBasic(data, gameLower, f) ==
    OrElse(
        Coalesce(
            Coalesce(Get(findGame(gamesArray(data), gameLower), f), data[f]),
            Get(keyedGame(data, gameLower), f)),
        Null)

extract(v, data, gameLower, f) ==
    IF v = "extended" THEN extractExtended(data, gameLower, f)
    ELSE extractBasic(data, gameLower, f)

\* level: level ? String(level) : null
levelOf(level) == IF Truthy(level) THEN Str(JsString(level)) ELSE Null
\* elo: elo ?? null
eloOf(elo) == Coalesce(elo, Null)

\* baseResult of the extended variant, result of the other two
resultOf(v, data, nick, game, t) ==
    IF v = "extended"
    THEN [nickname |-> OrElse(data.nickname, Str(nick)),
          player_id |-> OrElse(OrElse(data.player_id, data.playerId), Null),
          game |-> Str(game),
          level |-> levelOf(extract(v, data, toLowerCase(game), "skill_level")),
          elo |-> eloOf(extract(v, data, toLowerCase(game), "faceit_elo")),
          retrieved_at |-> Num(t),
          matches_today |-> Num(0),
          wins_today |-> Num(0),
          losses_today |-> Num(0),
          total_matches |-> Num(0)]
    ELSE [nickname |-> OrElse(data.nickname, Str(nick)),
          player_id |-> data.player_id,
          game |-> Str(game),
          level |-> levelOf(extract(v, data, toLowerCase(game), "skill_level")),
          elo |-> eloOf(extract(v, data, toLowerCase(game), "faceit_elo")),
          retrieved_at |-> Num(t)]

\* the three lines of the text summary, per variant
fullLine(v, r) ==
    JsString(r.nickname) \o " - ELO: " \o JsString(r.elo) \o " | Level: "
        \o JsString(r.level)
        \o (IF v = "extended"
            THEN " | Hoje: " \o JsString(r.wins_today) \o "W "
                 \o JsString(r.losses_today) \o "L ("
                 \o JsString(r.matches_today) \o " partidas) | Total: "
                 \o JsString(r.total_matches)
            ELSE "")
levelLine(v, r) ==
    JsString(r.nickname) \o " - Level: " \o JsString(r.level)
        \o (IF v = "extended"
            THEN " | Hoje: " \o JsString(r.wins_today) \o "W "
                 \o JsString(r.losses_today) \o "L ("
                 \o JsString(r.matches_today) \o " partidas) | Total: "
                 \o JsString(r.total_matches)
            ELSE " (ELO nao disponivel)")
notFoundLine(nick, game) ==
    "Perfil " \o nick \o " nao encontrado ou sem dados para " \o game \o "."

\* chatText / text: result.elo && result.level ? .. : result.level ? .. : ..
chatText(v, r, nick, game) ==
    IF Truthy(r.elo) /\ Truthy(r.level) THEN fullLine(v, r)
    ELSE IF Truthy(r.level) THEN levelLine(v, r)
    ELSE notFoundLine(nick, game)

-----------------------------------------------------------------------------
(* ResolveSpec: the resolver on its own.  One game object, with or without *)
(* the fields that name its game, is put into a players response in each   *)
(* of the three shapes upstream uses and each response is resolved.        *)

ResolveNames == {Undef, Str("CS2"), Str("Counter-Strike")}
ResolveSlugs == {Undef, Str("cs2")}
ResolveGameIds == {Undef, Str("cs2")}
ResolveLevels == {Undef, Num(0), Num(7)}
ResolveElos == {Undef, Num(0), Num(1800)}
ResolveTopLevels == {Undef, Num(3)}
ResolveTopElos == {Undef, Num(900)}
ResolveOthers == {"none", "dota2"}
ResolveGameQueries == {"", "CS2", "cs"}

\* the entries for other games that precede the game's own in a list or mapping
otherKeys(o) == IF o = "none" THEN <<>> ELSE <<o>>
otherItems(o) ==
    IF o = "none" THEN <<>>
    ELSE <<GameObject(Undef, Str(o), Undef, Num(2), Num(500))>>

\* the players response carrying pin.g as games: [..], games: {<game>: ..}
\* or game: {..}
dataAs(shape, i) ==
    PlayerData(i.nickname, Str("p1"), i.topLevel, i.topElo,
        CASE shape = "list" -> GamesArray(otherItems(i.other) \o <<i.g>>)
          [] shape = "map" -> GamesObject(otherKeys(i.other) \o <<GameOf(i.gameQ)>>,
                                          otherItems(i.other) \o <<i.g>>)
          [] OTHER -> Undef,
        IF shape = "single" THEN i.g ELSE Undef)

resolved(v, shape, i, t) ==
    LET r == resultOf(v, dataAs(shape, i), i.nick, GameOf(i.gameQ), t)
    IN  [rec |-> r, text |-> chatText(v, r, i.nick, GameOf(i.gameQ))]

ResolveInit ==
    /\ variant \in Variants
    /\ keyOK = TRUE
    /\ now = ClockStart
    /\ cache = EmptyCache
    /\ stored = EmptyCache
    /\ op = NoOp
    /\ reqs = <<>>
    /\ pin \in [g : {GameObject(n, s, id, l, e) :
                         n \in ResolveNames, s \in ResolveSlugs, id \in ResolveGameIds,
                         l \in ResolveLevels, e \in ResolveElos},
                 topLevel : ResolveTopLevels,
                 topElo : ResolveTopElos,
                 nickname : {Undef, Str("Ana")},
                 other : ResolveOthers,
                 nick : {"ana"},
                 gameQ : ResolveGameQueries]
    /\ pout = NoPure

Resolve ==
    /\ pout = NoPure
    /\ pout' = [t |-> "resolved",
                list |-> resolved(variant, "list", pin, now),
                map |-> resolved(variant, "map", pin, now),
                single |-> resolved(variant, "single", pin, now)]
    /\ UNCHANGED <<variant, keyOK, now, cache, stored, op, reqs, pin>>

ResolveNext == Resolve
ResolveSpec == ResolveInit /\ [][ResolveNext]_vars

Shapes == {"list", "map", "single"}

\* C4 (the claim as it stands): in every variant a rating of zero, or any
\* falsy rating, resolves to elo null, never 0, and a falsy skill level
\* resolves to level null.
C4_FalsyRatingIsNull ==
    pout.t = "resolved" =>
        \A sh \in Shapes :
            /\ pout[sh].rec.elo = Null \/ Truthy(pout[sh].rec.elo)
            /\ pout[sh].rec.level = Null \/ Truthy(pout[sh].rec.level)

\* the level and elo a shape resolved to
levelAndElo(sh) == <<pout[sh].rec.level, pout[sh].rec.elo>>

\* C7 (the claim as it stands, for a level and a rating that are set and not
\* zero): the list, the keyed mapping and the single embedded object resolve
\* to the same level and elo.
C7_ShapesAgree ==
    (pout.t = "resolved" /\ Truthy(pin.g.skill_level) /\ Truthy(pin.g.faceit_elo)) =>
        /\ levelAndElo("list") = levelAndElo("map")
        /\ levelAndElo("list") = levelAndElo("single")

\* the game object is the first element the handler's match finds
firstMatch(i) ==
    /\ matchesGame(i.g, GameOf(i.gameQ))
    /\ \A j \in 1..Len(otherItems(i.other)) :
           ~matchesGame(otherItems(i.other)[j], GameOf(i.gameQ))

\* C7 (amended): when the game's object is the first element whose name (or,
\* when it has no name, slug) or game_id contains the requested game, the
\* list, the keyed mapping and the single embedded object resolve to the same
\* level and elo, and these are the object's own wherever it gives them.
C7_MatchedShapesAgree ==
    (pout.t = "resolved" /\ firstMatch(pin)) =>
        /\ levelAndElo("list") = levelAndElo("map")
        /\ levelAndElo("list") = levelAndElo("single")
        /\ ~Nullish(pin.g.skill_level) => pout.list.rec.level = levelOf(pin.g.skill_level)
        /\ Truthy(pin.g.faceit_elo) => pout.single.rec.elo = pin.g.faceit_elo

\* the three shapes of an object found by its slug, behind another game's
\* entry, resolved to its level and rating
C7_Witness ==
    /\ pout.t = "resolved"
    /\ firstMatch(pin)
    /\ pin.other = "dota2"
    /\ pin.g.name = Undef
    /\ pin.g.skill_level = Num(7)
    /\ pin.topLevel = Num(3)
    /\ levelAndElo("map") = <<Str("7"), Num(1800)>>
    /\ levelAndElo("single") = <<Str("7"), Num(1800)>>

-----------------------------------------------------------------------------
(* The history of matches and the aggregation of today's (extended         *)
(* variant).                                                               *)

Arr(items) == [t |-> "array", items |-> items]
\* an element of teams.factionN.players
Player(player_id, nickname) ==
    [t |-> "object", player_id |-> player_id, nickname |-> nickname]
Faction(players, player_ids) ==
    [t |-> "object", players |-> players, player_ids |-> player_ids]
Teams(faction1, faction2) ==
    [t |-> "object", faction1 |-> faction1, faction2 |-> faction2]
Results(winner, winner_team) ==
    [t |-> "object", winner |-> winner, winner_team |-> winner_team]
Match(started_at, startedAt, teams, results) ==
    [t |-> "object", started_at |-> started_at, startedAt |-> startedAt,
     teams |-> teams, results |-> results]
HistData(items, total) == [t |-> "object", items |-> items, total |-> total]

\* todayStart.setHours(0, 0, 0, 0); todayStart.getTime(): the server's local
\* midnight, with the server's clock taken to run on UTC
todayTs(t) == t - (t % DAY_MS)

\* Array.isArray(f.players) ? f.players : f.player_ids ?? []
rosterOf(f) ==
    IF f.players.t = "array" THEN f.players.items
    ELSE Coalesce(f.player_ids, Arr(<<>>)).items

\* p.player_id ? p.player_id === playerId
\*             : p === playerId || p.nickname === playerNickname
\* ("throw" when p is null or undefined)
isPlayer(p, playerId, playerNickname) ==
    IF Nullish(p) THEN "throw"
    ELSE IF Truthy(Get(p, "player_id"))
         THEN (IF p.player_id = playerId THEN "true" ELSE "false")
    ELSE IF p = playerId \/ Get(p, "nickname") = playerNickname THEN "true"
    ELSE "false"

\* roster.some(p => ..): stops at the first element that is the player, and
\* throws at a null element met before one
RECURSIVE some(_, _, _)
some(roster, playerId, playerNickname) ==
    IF roster = <<>> THEN "false"
    ELSE LET r == isPlayer(Head(roster), playerId, playerNickname)
         IN  IF r = "false" THEN some(Tail(roster), playerId, playerNickname)
             ELSE r

\* let playerFaction = null; try { .. } catch { }
playerFactionOf(m, playerId, playerNickname) ==
    IF ~Truthy(m.teams) THEN Null
    ELSE LET r1 == IF Truthy(m.teams.faction1)
                   THEN some(rosterOf(m.teams.faction1), playerId, playerNickname)
                   ELSE "false"
         IN  IF r1 = "throw" THEN Null
             ELSE IF r1 = "true" THEN Str("faction1")
             ELSE IF Truthy(m.teams.faction2)
                       /\ some(rosterOf(m.teams.faction2), playerId, playerNickname)
                              = "true"
                  THEN Str("faction2")
             ELSE Null

\* m.results?.winner ?? m.results?.winner_team ?? null
winnerOf(m) ==
    Coalesce(Coalesce(Get(m.results, "winner"), Get(m.results, "winner_team")), Null)

\* m.started_at ?? m.startedAt ?? null
startedAtSecOf(m) == Coalesce(Coalesce(m.started_at, m.startedAt), Null)

\* the two `continue`s of the loop: no start time, or one before today
skipped(m, t) ==
    \/ ~Truthy(startedAtSecOf(m))
    \/ startedAtSecOf(m).v * 1000 < todayTs(t)

\* played++; if (winner && playerFaction) { winner === playerFaction ? wins++
\* : losses++ }
tallyUnresolvedAsLoss(acc, winner, faction) ==
    [played |-> acc.played + 1,
     wins |-> acc.wins + (IF Truthy(winner) /\ winner = faction THEN 1 ELSE 0),
     losses |-> acc.losses + (IF Truthy(winner) /\ winner = faction THEN 0 ELSE 1),
     threw |-> acc.threw]
tally(acc, winner, faction) ==
    [played |-> acc.played + 1,
     wins |-> acc.wins
                + (IF Truthy(winner) /\ Truthy(faction) /\ winner = faction
                   THEN 1 ELSE 0),
     losses |-> acc.losses
                + (IF Truthy(winner) /\ Truthy(faction) /\ winner # faction
                   THEN 1 ELSE 0),
     threw |-> acc.threw]

\* for (const m of historyItems) { .. }: reading m.started_at of a null item
\* throws out of the loop
RECURSIVE countToday(_, _, _, _, _)
countToday(items, acc, playerId, playerNickname, t) ==
    IF items = <<>> THEN acc
    ELSE IF Nullish(Head(items)) THEN [acc EXCEPT !.threw = TRUE]
    ELSE IF skipped(Head(items), t)
         THEN countToday(Tail(items), acc, playerId, playerNickname, t)
    ELSE countToday(Tail(items),
                    tally(acc, winnerOf(Head(items)),
                          playerFactionOf(Head(items), playerId, playerNickname)),
                    playerId, playerNickname, t)

\* let wins = 0; let losses = 0; let played = 0; and the loop
aggregate(items, playerId, playerNickname, t) ==
    countToday(items, [played |-> 0, wins |-> 0, losses |-> 0, threw |-> FALSE],
               playerId, playerNickname, t)

\* historyItems and baseResult.total_matches of a history response, then the
\* counters of today when there are items
applyHistory(base, histData, playerId, playerNickname, t) ==
    LET historyItems ==
            IF histData.items.t = "array" THEN histData.items.items
            ELSE Coalesce(histData.items, Arr(<<>>)).items
        total ==
            IF histData.total.t = "number" THEN histData.total
            ELSE Num(Len(historyItems))
        agg == aggregate(historyItems, playerId, playerNickname, t)
    IN  [threw |-> agg.threw,
         rec |-> IF Len(historyItems) > 0
                 THEN [base EXCEPT !.total_matches = total,
                                   !.matches_today = Num(agg.played),
                                   !.wins_today = Num(agg.wins),
                                   !.losses_today = Num(agg.losses)]
                 ELSE [base EXCEPT !.total_matches = total]]

\* catch (errHist) { baseResult.total_matches = 0 }: historyItems stays empty
\* and the lookup goes on
historyFailedRethrows(base) == [threw |-> TRUE, rec |-> base]
historyFailed(base) ==
    [threw |-> FALSE, rec |-> [base EXCEPT !.total_matches = Num(0)]]

-----------------------------------------------------------------------------
(* AggSpec: the aggregation on its own, over every history of at most      *)
(* MaxItems items drawn from AggMatches, for player p1 (nickname Ana),     *)
(* half a minute after midnight.                                           *)

MaxItems == 2

AggPlayerId == Str("p1")
AggNickname == Str("Ana")
\* the players response the history belongs to
AggData ==
    PlayerData(AggNickname, AggPlayerId, Undef, Undef,
               GamesObject(<<"cs2">>, <<GameObject(Undef, Undef, Undef, Num(7), Num(1800))>>),
               Undef)

Ana == Player(Str("p1"), Str("Ana"))
Bob == Player(Str("p2"), Str("Bob"))
Cid == Player(Str("p3"), Str("Cid"))

\* rosters: the player in faction1 by player_id; in faction2 by an entry of
\* player_ids; in faction2 by nickname alone; in neither; behind a null entry
\* of faction1; no teams at all
AggTeams ==
    {Teams(Faction(Arr(<<Bob, Ana>>), Undef), Faction(Arr(<<Cid>>), Undef)),
     Teams(Faction(Undef, Arr(<<Str("p2")>>)), Faction(Undef, Arr(<<Str("p1")>>))),
     Teams(Faction(Arr(<<Player(Undef, Str("Bob"))>>), Undef),
           Faction(Arr(<<Player(Undef, Str("Ana"))>>), Undef)),
     Teams(Faction(Arr(<<Bob>>), Undef), Faction(Arr(<<Cid>>), Undef)),
     Teams(Faction(Arr(<<Null, Ana>>), Undef), Faction(Arr(<<Ana>>), Undef)),
     Undef}
AggResults ==
    {Results(Str("faction1"), Undef),
     Results(Undef, Str("faction2")),
     Results(Str("draw"), Undef),
     Undef}

\* seconds since the epoch: the last second of yesterday, midnight, and the
\* second after it
YesterdaySec == (ClockStart \div 1000) - 1
MidnightSec == ClockStart \div 1000

AggMatches ==
    {Match(Num(MidnightSec), Undef, tm, rs) : tm \in AggTeams, rs \in AggResults}
    \cup {Match(Undef, Num(MidnightSec + 1),
                CHOOSE tm \in AggTeams : tm # Undef /\ tm.faction1.players = Arr(<<Bob, Ana>>),
                Results(Str("faction1"), Undef)),
          Match(Num(YesterdaySec), Undef,
                CHOOSE tm \in AggTeams : tm # Undef /\ tm.faction1.players = Arr(<<Bob, Ana>>),
                Results(Str("faction1"), Undef)),
          Match(Undef, Undef, Undef, Results(Str("faction1"), Undef)),
          Match(Num(0), Undef, Undef, Undef),
          Null}

AggInit ==
    /\ variant = "extended"
    /\ keyOK = TRUE
    /\ now = ClockStart + TTL_DEFAULT
    /\ cache = EmptyCache
    /\ stored = EmptyCache
    /\ op = NoOp
    /\ reqs = <<>>
    /\ pin \in [items : UNION {[1..n -> AggMatches] : n \in 0..MaxItems},
                 total : {Undef, Num(50)}]
    /\ pout = NoPure

Aggregate ==
    /\ pout = NoPure
    /\ pout' = [t |-> "aggregated",
                r |-> applyHistory(resultOf(variant, AggData, "ana", "cs2", now),
                                   HistData(Arr(pin.items), pin.total),
                                   AggPlayerId, AggNickname, now)]
    /\ UNCHANGED <<variant, keyOK, now, cache, stored, op, reqs, pin>>

AggNext == Aggregate
AggSpec == AggInit /\ [][AggNext]_vars

\* the items of today, said from the claim: those whose start timestamp is
\* at or after local midnight
ofToday(m) ==
    /\ ~Nullish(m)
    /\ startedAtSecOf(m).t = "number"
    /\ startedAtSecOf(m).v * 1000 >= now - (now % DAY_MS)
TodayAt == {i \in 1..Len(pin.items) : ofToday(pin.items[i])}
ResolvedAt ==
    {i \in TodayAt :
        /\ winnerOf(pin.items[i]) # Null
        /\ playerFactionOf(pin.items[i], AggPlayerId, AggNickname) # Null}
WonAt ==
    {i \in ResolvedAt :
        winnerOf(pin.items[i]) = playerFactionOf(pin.items[i], AggPlayerId, AggNickname)}

\* C10: matches_today is the number of items that started at or after local
\* midnight; each of them adds a win exactly when winner and faction are both
\* resolved and equal, a loss exactly when both are resolved and differ; so
\* wins + losses <= matches_today <= number of items, strictly below
\* matches_today when a match of today has an unresolved winner or faction.
C10_TodayCounts ==
    (pout.t = "aggregated" /\ ~pout.r.threw) =>
        LET played == pout.r.rec.matches_today.v
            wins == pout.r.rec.wins_today.v
            losses == pout.r.rec.losses_today.v
        IN  /\ played = Cardinality(TodayAt)
            /\ wins = Cardinality(WonAt)
            /\ losses = Cardinality(ResolvedAt \ WonAt)
            /\ wins + losses <= played
            /\ played <= Len(pin.items)
            /\ (ResolvedAt # TodayAt) => wins + losses < played

\* two matches of today, one won and one whose faction is unresolved, so that
\* wins + losses = 1 < 2 = matches_today
C10_Witness ==
    /\ pout.t = "aggregated"
    /\ ~pout.r.threw
    /\ Len(pin.items) = 2
    /\ pout.r.rec.matches_today = Num(2)
    /\ pout.r.rec.wins_today = Num(1)
    /\ pout.r.rec.losses_today = Num(0)
    /\ ResolvedAt # TodayAt

-----------------------------------------------------------------------------
(* The handler of GET /faceit/:nick.                                       *)

MaxReq == 2

TextResponse(status, body) == [status |-> status, type |-> "text", body |-> body]
JsonResponse(status, body) == [status |-> status, type |-> "json", body |-> body]

\* what the handler caches: { json: baseResult, text: chatText }
Cached(json, text) == [t |-> "object", json |-> json, text |-> text]

\* an axios error: err.response?.status and err.code; a TypeError has neither
Failure(status, code) == [status |-> status, code |-> code]
Thrown == Failure(Undef, Undef)

\* the message of the catch block
errorMessage(v, err) ==
    IF err.status = Num(404) THEN "Player nao encontrado"
    ELSE IF err.status = Num(401) THEN "API key invalida"
    ELSE IF err.status = Num(429) THEN "Rate limit da FACEIT (429)"
    ELSE IF v # "basic" /\ err.code = Str("ECONNABORTED")
         THEN "Timeout ao consultar FACEIT"
    ELSE "Erro ao consultar FACEIT"

\* the response of the catch block
errorResponse(v, fmt, err) ==
    IF v # "basic" /\ fmt = "text"
    THEN TextResponse(200, "Erro ao buscar ELO - " \o errorMessage(v, err))
    ELSE JsonResponse(500, [error |-> errorMessage(v, err)])

\* if (!FACEIT_KEY) ..
noKeyResponse(v, fmt) ==
    IF v # "basic" /\ fmt = "text"
    THEN TextResponse(200, "FACEIT_KEY nao configurada")
    ELSE JsonResponse(500, [error |-> "FACEIT_KEY nao configurada"])

\* if (cached) ..: cached.text for format=text, else cached.json
hitResponseAlwaysJson(fmt, cached) == JsonResponse(200, cached.json)
hitResponse(fmt, cached) ==
    IF fmt = "text" THEN TextResponse(200, cached.text)
    ELSE JsonResponse(200, cached.json)

\* the response after setCache: chatText for format=text, else the record
successResponse(fmt, rec, text) ==
    IF fmt = "text" THEN TextResponse(200, text)
    ELSE JsonResponse(200, rec)

\* the slots of the handler invocations in flight
Idle == [pc |-> "idle"]
Slots == 1..MaxReq
Pending(r) == reqs[r].pc # "idle"

\* what a cache hit leaves in flight: nothing, the handler returns
inFlightAfterHitRefreshing(slots, r, nick, game, fmt, t) ==
    [slots EXCEPT ![r] = [pc |-> "awaitPlayer", nick |-> nick, game |-> game,
                          fmt |-> fmt, sent |-> t]]
inFlightAfterHit(slots, r, nick, game, fmt, t) == slots

\* what a cache miss leaves in flight: the players request, awaited
inFlightAfterMiss(slots, r, nick, game, fmt, t) ==
    [slots EXCEPT ![r] = [pc |-> "awaitPlayer", nick |-> nick, game |-> game,
                          fmt |-> fmt, sent |-> t]]

\* a step of the handler: its kind, the nick, game, cache key and format of
\* its request, the response it sent (if any), the error it caught (if any)
\* and the number of upstream requests it issued
Step(kind, nick, game, fmt, ret, err, calls) ==
    [kind |-> kind, nick |-> nick, game |-> game,
     key |-> IF kind = "tick" THEN NoKey ELSE CacheKey(nick, game),
     fmt |-> fmt, ret |-> ret, err |-> err, calls |-> calls]

\* the requests the server is sent: /faceit/ana?game=CS2, with or without
\* format=TEXT
ServerNicks == {"ana"}
ServerGameQueries == {"CS2"}
ServerFormatQueries == {"", "TEXT"}

\* a request arrives and runs in the first free slot: the credential check,
\* getCache, and either the response from the cache or the players request
Arrive(r) ==
    \E nick \in ServerNicks, gq \in ServerGameQueries, fq \in ServerFormatQueries :
        LET game == GameOf(gq)
            fmt == FormatOf(fq)
            key == CacheKey(nick, game)
            cached == getCacheValue(cache, key, now)
        IN  /\ ~Pending(r)
            /\ \A r2 \in Slots : r2 < r => Pending(r2)
            /\ IF ~keyOK
               THEN /\ op' = Step("nokey", nick, game, fmt, noKeyResponse(variant, fmt),
                                  Undef, 0)
                    /\ UNCHANGED <<cache, reqs>>
               ELSE /\ cache' = getCacheMap(cache, key, now)
                    /\ IF Truthy(cached)
                       THEN /\ op' = Step("hit", nick, game, fmt, hitResponse(fmt, cached),
                                          Undef, 0)
                            /\ reqs' = inFlightAfterHit(reqs, r, nick, game, fmt, now)
                       ELSE /\ op' = Step("miss", nick, game, fmt, Undef, Undef, 1)
                            /\ reqs' = inFlightAfterMiss(reqs, r, nick, game, fmt, now)
            /\ UNCHANGED <<variant, keyOK, now, stored, pin, pout>>

\* setCache(cacheKey, { json, text }, ttl) and the response; caught is the
\* error the inner catch swallowed on the way, if any
Finish(r, rec, caught) ==
    LET q == reqs[r]
        key == CacheKey(q.nick, q.game)
        text == chatText(variant, rec, q.nick, q.game)
    IN  /\ cache' = setCache(cache, key, Cached(rec, text), ttlOf(variant), now)
        /\ stored' = [stored EXCEPT ![key] =
                         Entry(Cached(rec, text), now + ttlOf(variant))]
        /\ op' = Step("resolved", q.nick, q.game, q.fmt, successResponse(q.fmt, rec, text),
                      caught, 0)
        /\ reqs' = [reqs EXCEPT ![r] = Idle]

\* the catch block, had it cached what it answers
FailCachingResponse(r, err) ==
    LET q == reqs[r]
        key == CacheKey(q.nick, q.game)
        msg == errorMessage(variant, err)
    IN  /\ op' = Step("error", q.nick, q.game, q.fmt, errorResponse(variant, q.fmt, err),
                      err, 0)
        /\ reqs' = [reqs EXCEPT ![r] = Idle]
        /\ cache' = setCache(cache, key,
                             Cached([error |-> msg], "Erro ao buscar ELO - " \o msg),
                             ttlOf(variant), now)
        /\ UNCHANGED stored

\* the catch block: the error response, and nothing written
Fail(r, err) ==
    LET q == reqs[r]
    IN  /\ op' = Step("error", q.nick, q.game, q.fmt, errorResponse(variant, q.fmt, err),
                      err, 0)
        /\ reqs' = [reqs EXCEPT ![r] = Idle]
        /\ UNCHANGED <<cache, stored>>

\* the bodies the players endpoint answers with: the keyed mapping FACEIT
\* sends, a list whose rating is zero in a profile without player_id, and
\* null
ServerPlayerData(nick) ==
    {PlayerData(Str("Ana"), Str("p1"), Undef, Undef,
                GamesObject(<<"cs2">>,
                            <<GameObject(Undef, Undef, Undef, Num(7), Num(1800))>>),
                Undef),
     PlayerData(Undef, Undef, Undef, Undef,
                GamesArray(<<GameObject(Str("CS2"), Undef, Undef, Num(3), Num(0))>>),
                Undef),
     Null}

\* the failures of the players request: an HTTP status or a network error,
\* and the timeout
Failures ==
    {Failure(Num(404), Str("ERR_BAD_REQUEST")),
     Failure(Num(401), Str("ERR_BAD_REQUEST")),
     Failure(Num(429), Str("ERR_BAD_REQUEST")),
     Failure(Num(500), Str("ERR_BAD_RESPONSE")),
     Failure(Undef, Str("ENOTFOUND")),
     Failure(Undef, Str("ECONNABORTED")),
     Thrown}
ServerFailures == {Failure(Num(429), Str("ERR_BAD_REQUEST"))}
TimedOut == Failure(Undef, Str("ECONNABORTED"))

\* the bodies the history endpoint answers with: a match of today that the
\* player won, and an array holding a null
ServerHistories ==
    {HistData(Arr(<<Match(Num(MidnightSec), Undef,
                          Teams(Faction(Arr(<<Bob, Ana>>), Undef),
                                Faction(Arr(<<Cid>>), Undef)),
                          Results(Str("faction1"), Undef))>>),
              Num(12)),
     HistData(Arr(<<Null>>), Undef)}

\* an awaited request is answered within its timeout, or times out at it
BeforeDeadline(r) == now - reqs[r].sent <= timeoutOf(variant)
AtDeadline(r) == now - reqs[r].sent >= timeoutOf(variant)

\* the players request is answered: the record is built, and the extended
\* variant goes on to the history request when it has a player id
PlayerResponse(r) ==
    /\ reqs[r].pc = "awaitPlayer"
    /\ BeforeDeadline(r)
    /\ \E data \in ServerPlayerData(reqs[r].nick) :
           IF data = Null
           THEN Fail(r, Thrown)
           ELSE LET q == reqs[r]
                    base == resultOf(variant, data, q.nick, q.game, now)
                IN  IF variant = "extended" /\ Truthy(base.player_id)
                    THEN /\ reqs' = [reqs EXCEPT ![r] =
                                        [pc |-> "awaitHistory", nick |-> q.nick,
                                         game |-> q.game, fmt |-> q.fmt,
                                         sent |-> now, base |-> base]]
                         /\ op' = Step("history", q.nick, q.game, q.fmt,
                                       Undef, Undef, 1)
                         /\ UNCHANGED <<cache, stored>>
                    ELSE Finish(r, base, Undef)
    /\ UNCHANGED <<variant, keyOK, now, pin, pout>>

\* the players request fails with an HTTP status or a network error
PlayerError(r) ==
    \E err \in ServerFailures :
        /\ reqs[r].pc = "awaitPlayer"
        /\ BeforeDeadline(r)
        /\ Fail(r, err)
        /\ UNCHANGED <<variant, keyOK, now, pin, pout>>

\* the players request times out
PlayerTimeout(r) ==
    /\ reqs[r].pc = "awaitPlayer"
    /\ AtDeadline(r)
    /\ Fail(r, TimedOut)
    /\ UNCHANGED <<variant, keyOK, now, pin, pout>>

\* the history request is answered
HistoryResponse(r) ==
    \E hist \in ServerHistories :
        LET q == reqs[r]
            h == applyHistory(q.base, hist, q.base.player_id, q.base.nickname, now)
        IN  /\ q.pc = "awaitHistory"
            /\ BeforeDeadline(r)
            /\ IF h.threw THEN Fail(r, Thrown) ELSE Finish(r, h.rec, Undef)
            /\ UNCHANGED <<variant, keyOK, now, pin, pout>>

\* the history request fails or times out: the inner catch
HistoryError(r) ==
    \E err \in ServerFailures \cup {TimedOut} :
        LET q == reqs[r]
            h == historyFailed(q.base)
        IN  /\ q.pc = "awaitHistory"
            /\ IF err = TimedOut THEN AtDeadline(r) ELSE BeforeDeadline(r)
            /\ IF h.threw THEN Fail(r, err) ELSE Finish(r, h.rec, err)
            /\ UNCHANGED <<variant, keyOK, now, pin, pout>>

\* time passes, but not past the timeout of a request in flight
Tick ==
    \E d \in TickSizes(variant) :
        /\ ClockOK(now + d, variant)
        /\ \A r \in Slots : Pending(r) => now + d <= reqs[r].sent + timeoutOf(variant)
        /\ now' = now + d
        /\ op' = Step("tick", "", "", "", Undef, Undef, 0)
        /\ UNCHANGED <<variant, keyOK, cache, stored, reqs, pin, pout>>

Init ==
    /\ variant \in Variants
    /\ keyOK \in BOOLEAN
    /\ now = ClockStart
    /\ cache = EmptyCache
    /\ stored = EmptyCache
    /\ op = NoOp
    /\ reqs = [r \in Slots |-> Idle]
    /\ pin = NoPure
    /\ pout = NoPure

Next ==
    \/ \E r \in Slots : Arrive(r)
    \/ \E r \in Slots : PlayerResponse(r)
    \/ \E r \in Slots : PlayerError(r)
    \/ \E r \in Slots : PlayerTimeout(r)
    \/ \E r \in Slots : HistoryResponse(r)
    \/ \E r \in Slots : HistoryError(r)
    \/ Tick

Spec == Init /\ [][Next]_vars

\* an entry written for key k that has not expired
Unexpired(k) == stored[k] # NoEntry /\ now <= stored[k].expire

\* ret is the response to a request of format fmt that serves the cached
\* value e
Served(ret, fmt, e) ==
    /\ ret.status = 200
    /\ IF fmt = "text" THEN ret.type = "text" /\ ret.body = e.text
       ELSE ret.type = "json" /\ ret.body = e.json

\* a request that arrives while the entry of its key is unexpired is answered
\* with what the lookup that wrote the entry produced, and its handler issues
\* no upstream request
C3_AnsweredFromCache ==
    /\ [](op.kind = "hit" =>
            /\ Unexpired(op.key)
            /\ Served(op.ret, op.fmt, stored[op.key].value)
            /\ op.calls = 0)
    /\ [][(op'.kind \in {"hit", "miss"} /\ Unexpired(op'.key))
              => op'.kind = "hit"]_vars

\* C3, as stated: requests that arrive while the entry is unexpired are
\* answered from the cache without an upstream request, and an upstream
\* request for a key is issued only when the key has no unexpired entry.
C3_NoUpstreamWhileCached ==
    /\ C3_AnsweredFromCache
    /\ [][op'.calls > 0 => ~Unexpired(op'.key)]_vars

\* C3, amended: requests that arrive while the entry is unexpired are
\* answered from the cache without an upstream request, and a lookup for a
\* key is started (its players request issued) only when the key has no
\* unexpired entry; the match-history request is issued only by a lookup
\* that is in flight.
C3_LookupStartsOnlyOnMiss ==
    /\ C3_AnsweredFromCache
    /\ [][\A r \in Slots :
            /\ (~Pending(r) /\ reqs'[r].pc # "idle")
                   => (/\ reqs'[r].pc = "awaitPlayer"
                       /\ op'.kind = "miss"
                       /\ op'.key = CacheKey(reqs'[r].nick, reqs'[r].game)
                       /\ ~Unexpired(op'.key))
            /\ op'.kind = "miss" => op'.calls = 1
            /\ op'.kind = "history" => \E q \in Slots : reqs[q].pc = "awaitPlayer"]_vars

\* a text request answered from the cache at the very millisecond its entry
\* expires
C3_Witness ==
    /\ op.kind = "hit"
    /\ op.fmt = "text"
    /\ stored[op.key] # NoEntry
    /\ now = stored[op.key].expire
    /\ op.ret.type = "text"
    /\ op.ret.body = stored[op.key].value.text
    /\ op.calls = 0

-----------------------------------------------------------------------------
(* ErrorSpec: the catch block on its own, over every variant, format and   *)
(* failure of the players request.                                         *)

ErrorInit ==
    /\ variant \in Variants
    /\ keyOK = TRUE
    /\ now = ClockStart
    /\ cache = EmptyCache
    /\ stored = EmptyCache
    /\ op = NoOp
    /\ reqs = <<>>
    /\ pin \in [fq : FormatQueries, err : Failures]
    /\ pout = NoPure

Catch ==
    /\ pout = NoPure
    /\ pout' = [t |-> "caught",
                res |-> errorResponse(variant, FormatOf(pin.fq), pin.err)]
    /\ UNCHANGED <<variant, keyOK, now, cache, stored, op, reqs, pin>>

ErrorNext == Catch

ErrorSpec == ErrorInit /\ [][ErrorNext]_vars

\* the message the failure maps to
messageFor(err) ==
    IF err.status = Num(404) THEN "Player nao encontrado"
    ELSE IF err.status = Num(401) THEN "API key invalida"
    ELSE IF err.status = Num(429) THEN "Rate limit da FACEIT (429)"
    ELSE IF err.code = Str("ECONNABORTED") THEN "Timeout ao consultar FACEIT"
    ELSE "Erro ao consultar FACEIT"

\* C5: in every variant and format a failure of the players request maps to
\* its one fixed message (404, 401, 429, timeout, anything else), and the body
\* is that message alone: bare in the JSON error field, or after the prefix of
\* the text format.
C5_OneMessagePerFailure ==
    pout.t = "caught" =>
        \/ /\ pout.res.type = "json"
           /\ pout.res.body = [error |-> messageFor(pin.err)]
        \/ /\ pout.res.type = "text"
           /\ pout.res.body = "Erro ao buscar ELO - " \o messageFor(pin.err)

-----------------------------------------------------------------------------
(* The claims about the lookup.                                            *)

\* the failures of the match-history request
HistoryFailed(err) == err \in ServerFailures \cup {TimedOut}

\* C6: in the extended variant, when the match-history request fails or
\* times out, the lookup still ends in the normal response, whose record has
\* matches_today, wins_today, losses_today and total_matches all 0, and that
\* record is written to the cache with the TTL of any successful result.
C6_HistoryFailureDegrades ==
    [][\A r \in Slots :
        (reqs[r].pc = "awaitHistory" /\ reqs'[r].pc = "idle" /\ HistoryFailed(op'.err))
            => LET e == cache'[CacheKey(reqs[r].nick, reqs[r].game)]
               IN  /\ op'.kind = "resolved"
                   /\ e # NoEntry
                   /\ e.expire = now + TTL_EXTENDED
                   /\ e.value.json = reqs[r].base
                   /\ e.value.json.matches_today = Num(0)
                   /\ e.value.json.wins_today = Num(0)
                   /\ e.value.json.losses_today = Num(0)
                   /\ e.value.json.total_matches = Num(0)
                   /\ Served(op'.ret, reqs[r].fmt, e.value)]_vars

\* a lookup whose match-history request timed out, answered in text with the
\* zero counters and cached
C6_Witness ==
    /\ variant = "extended"
    /\ op.kind = "resolved"
    /\ op.err = TimedOut
    /\ op.fmt = "text"
    /\ cache[op.key] # NoEntry
    /\ cache[op.key].value.json.total_matches = Num(0)
    /\ cache[op.key].value.json.matches_today = Num(0)
    /\ op.ret.body = cache[op.key].value.text

\* C8: the text of a successful lookup is the full line when elo and level
\* are both non-null, the level-only line when only level is non-null, and
\* the not-found line otherwise; the text sent for format=text is the text
\* stored in the cache.
C8_TextByResolvedFields ==
    op.kind = "resolved" =>
        LET e == cache[op.key].value
            r == e.json
        IN  /\ e.text = IF r.elo # Null /\ r.level # Null THEN fullLine(variant, r)
                        ELSE IF r.level # Null THEN levelLine(variant, r)
                        ELSE notFoundLine(op.nick, op.game)
            /\ op.fmt = "text" => op.ret.body = e.text

=============================================================================
